---------------------------- MODULE Spec2Model ----------------------------
(***************************************************************************)
(* Minidisc (src/python/minidisc.py): the processes that share one node    *)
(* address, each with a LocalRegistry (_RegistryImpl) and a protocol actor *)
(* (_MinidiscNode) that contends for the well-known discovery port.        *)
(*                                                                         *)
(* One process = one start_registry() call: a registry, a node, the node's *)
(* run() thread and, while a server is bound, its single-threaded          *)
(* http.server.HTTPServer.  Time is abstracted: a timeout is possible      *)
(* whenever the peer holds the connection without answering.               *)
(***************************************************************************)
EXTENDS Integers, Sequences, FiniteSets, TLC

\* ------------------------------------------------------------ bounds
NumProcs == 3          \* processes started on the node address
NumEphemeral == 2      \* ephemeral ports the OS can hand out
MaxDelegates == 2      \* cap on the length of a _delegates list
NumAppThreads == 2     \* application threads that call one registry
MaxCalls == 2          \* registry calls each application thread makes
MaxPeers == 3          \* addresses of the tailnet a client asks

\* --------------------------------------------------------- constants
WellKnownPort == 28004
PortLimit == 65536     \* 2**16 in advertise_service's assertion

OwnAddr == "A"         \* _get_own_tailnet_addresses(): this node's IPv4
ForeignAddr == "B"     \* some other node of the tailnet

Procs == 1..NumProcs
EphemeralPorts == {50000 + i : i \in 1..NumEphemeral}

\* A client outside the modelled processes, and a caller that gave up.
External == 0
Gone == -1

VARIABLES
    pc,          \* pc[p]: where p's run() thread is
    port,        \* port[p]: port of the listening socket p holds, 0 if none
    delegates,   \* delegates[p]: _MinidiscNode._delegates
    services,    \* services[p]: _RegistryImpl._services
    h,           \* h[p]: the request p's server thread is handling
    reply,       \* the response the last step sent to a peer's request, if any
    regCall,     \* the registry call the last step made and how it ended, if any
    lastOp,      \* history: last successful registry operation per port
    formerDelegate, \* history: the live process p has been a registered Delegate
    thr,         \* thr[t]: where thread t of process 1 is, statement by statement
    mutex,       \* mutex.reg, mutex.del: the threads inside each "with self._mutex"
    lin,         \* history: the registry of process 1 as the calls made so far,
                 \* one after the other in the order they took effect, leave it
    net,         \* what each address of the tailnet does with a GET /services
    out          \* the last call of list_services / find_service and its result

vars == <<pc, port, delegates, services, h, reply, regCall, lastOp,
          formerDelegate, thr, mutex, lin, net, out>>

\* The variables of the statement-level and of the client specifications.
auxVars == <<thr, mutex, lin, net, out>>

\* ------------------------------------------------------------ Service
NoLabels == [k \in {} |-> ""]
ProdLabels == [k \in {"env"} |-> "prod"]

\* serialize_addr_port: the wire form "ip:port", as its three parts.
serialize_addr_port(v) == <<v[1], ":", v[2]>>

\* parse_addr_port / the split in _handle_http_post: host, int(port).
parse_addr_port(s) == <<s[1], s[3]>>

\* Service(name=, labels=, addr_port=f'{addr}:{port}')
Service(name, labels, addr, prt) ==
    [name |-> name, labels |-> labels,
     addr_port |-> parse_addr_port(serialize_addr_port(<<addr, prt>>))]

\* ------------------------------------------------------ LocalRegistry
\* Index of the first entry of list whose port is prt, 0 if there is none:
\* the for/enumerate loops of advertise_service and unlist_service.
FirstIndex(list, prt) ==
    LET hits == {i \in 1..Len(list) : list[i].addr_port[2] = prt}
    IN  IF hits = {} THEN 0 ELSE CHOOSE i \in hits : \A j \in hits : i <= j

\* list.pop(i)
Pop(list, i) == [j \in 1..(Len(list) - 1) |-> IF j < i THEN list[j] ELSE list[j + 1]]

\* Faulty variant: the new entry is appended whether or not the port is listed.
AdvertiseList_Appends(list, addr, prt, name, labels) ==
    Append(list, Service(name, labels, addr, prt))

\* Faulty variant: the replaced entry moves to the end of the list.
AdvertiseList_MovesToEnd(list, addr, prt, name, labels) ==
    LET i == FirstIndex(list, prt)
        new_entry == Service(name, labels, addr, prt)
    IN  IF i > 0 THEN Append(Pop(list, i), new_entry)
        ELSE Append(list, new_entry)

\* The list after advertise_service(prt, name, labels): the entry of the port
\* is replaced in place, or the new entry is appended (for ... else).
AdvertiseList(list, addr, prt, name, labels) ==
    LET i == FirstIndex(list, prt)
        new_entry == Service(name, labels, addr, prt)
    IN  IF i > 0 THEN [list EXCEPT ![i] = new_entry]
        ELSE Append(list, new_entry)

\* Faulty variant: with the port absent, the last entry goes.
UnlistList_PopsLast(list, prt) ==
    LET i == FirstIndex(list, prt)
    IN  IF i > 0 THEN Pop(list, i)
        ELSE IF list # <<>> THEN Pop(list, Len(list)) ELSE list

\* The list after unlist_service(prt); unchanged when the port is absent.
UnlistList(list, prt) ==
    LET i == FirstIndex(list, prt)
    IN  IF i > 0 THEN Pop(list, i) ELSE list

\* The services property: tuple(self._services) under the mutex.
Snapshot(p) == services[p]

Alive(p) == pc[p] \notin {"NotStarted", "Exited"}

\* The registry call made by the last step and how it ended, if it made one.
NoCall == [proc |-> 0, op |-> "none", port |-> 0, result |-> "none"]

\* h[p]: acc is the handler's services list, todo what is left of its copy of
\* _delegates.  History of the request: copied (the copy as taken), dead (its
\* entries nobody listened on when it was taken), log (the snapshots that
\* went into acc, with the entry each was fetched from), refused (the
\* positions of the copy whose fetch was refused).
Idle == [st |-> "idle", client |-> External, acc |-> <<>>, todo |-> <<>>,
         copied |-> <<>>, dead |-> {}, log |-> <<>>, refused |-> {}]

\* status -1: no request answered yet; 0: closed without a response.
NoReply == [req |-> "none", from |-> 0, status |-> -1, body |-> <<>>,
            copied |-> <<>>, dead |-> {}, log |-> <<>>, refused |-> {},
            failed |-> <<>>, path |-> "", sent |-> "none"]

NoOp == [kind |-> "none", name |-> "", labels |-> NoLabels]

advertise_service(p, prt, name, labels) ==
    /\ Alive(p)
    /\ IF 0 < prt /\ prt < PortLimit
       THEN /\ services' = [services EXCEPT
                   ![p] = AdvertiseList(services[p], OwnAddr, prt, name, labels)]
            /\ lastOp' = [lastOp EXCEPT ![p][prt] =
                   [kind |-> "advertise", name |-> name, labels |-> labels]]
            /\ regCall' = [proc |-> p, op |-> "advertise", port |-> prt,
                           result |-> "ok"]
       ELSE /\ regCall' = [proc |-> p, op |-> "advertise", port |-> prt,
                           result |-> "AssertionError"]
            /\ UNCHANGED <<services, lastOp>>
    /\ UNCHANGED <<pc, port, delegates, h, formerDelegate>>
    /\ reply' = NoReply
    /\ UNCHANGED auxVars

unlist_service(p, prt) ==
    /\ Alive(p)
    /\ services' = [services EXCEPT ![p] = UnlistList(services[p], prt)]
    /\ IF FirstIndex(services[p], prt) > 0
       THEN /\ lastOp' = [lastOp EXCEPT ![p][prt] =
                   [kind |-> "unlist", name |-> "", labels |-> NoLabels]]
            /\ regCall' = [proc |-> p, op |-> "unlist", port |-> prt,
                           result |-> "ok"]
       ELSE /\ regCall' = [proc |-> p, op |-> "unlist", port |-> prt,
                           result |-> "KeyError"]
            /\ UNCHANGED lastOp
    /\ UNCHANGED <<pc, port, delegates, h, formerDelegate>>
    /\ reply' = NoReply
    /\ UNCHANGED auxVars

\* Inputs of the registry calls.
RegPorts == {0, 10, 20, PortLimit}
RegNames == {"x", "y"}
RegLabels == {NoLabels, ProdLabels}
\* In the protocol specification process p advertises one service of its own.
OwnPort(p) == 10 * p
HistoryPorts == RegPorts \cup {OwnPort(p) : p \in Procs}

\* The threads of process 1: the server thread (serve_forever) and the
\* application threads that call the registry.
ServerThread == 0
AppThreads == 1..NumAppThreads
Threads == {ServerThread} \cup AppThreads

\* thr[t]: op, port, name are the call in progress, i the loop index, calls
\* the calls made, snap the tuple a services call is about to return, seen
\* (history) the values lin has had since that call began; todo and entry
\* are the handler's copy of _delegates and the entry being fetched.
ThreadIdle ==
    [pc |-> "idle", op |-> "none", port |-> 0, name |-> "", i |-> 0,
     calls |-> 0, snap |-> <<>>, seen |-> {}, todo |-> <<>>, entry |-> <<>>]

\* No client call made yet.
NoOut == [op |-> "none", name |-> "", labels |-> NoLabels, raised |-> "",
          result |-> <<>>]

AuxInit ==
    /\ thr = [t \in Threads |-> ThreadIdle]
    /\ mutex = [reg |-> {}, del |-> {}]
    /\ lin = <<>>
    /\ net = <<>>
    /\ out = NoOut

\* ------------------------------------------------------------- state
ProtoInit ==
    /\ pc = [p \in Procs |-> "NotStarted"]
    /\ port = [p \in Procs |-> 0]
    /\ delegates = [p \in Procs |-> <<>>]
    /\ services = [p \in Procs |-> <<>>]
    /\ h = [p \in Procs |-> Idle]
    /\ reply = NoReply
    /\ regCall = NoCall
    /\ lastOp = [p \in Procs |-> [q \in HistoryPorts |-> NoOp]]
    /\ formerDelegate = [p \in Procs |-> FALSE]

Init == AuxInit /\ ProtoInit

\* start_registry(): the registry, the node and its run() thread.  Process
\* numbers are given in start order.
Start(p) ==
    /\ pc[p] = "NotStarted"
    /\ \A q \in Procs : q < p => pc[q] # "NotStarted"
    /\ pc' = [pc EXCEPT ![p] = "Binding"]
    /\ UNCHANGED <<port, delegates, services, h, lastOp, formerDelegate>>
    /\ reply' = NoReply
    /\ regCall' = NoCall
    /\ UNCHANGED auxVars

\* Process exit: the OS closes its sockets.  A caller waiting for p's answer
\* sees the connection reset, which is not ConnectionRefusedError.
RECURSIVE Callers(_)
Callers(p) ==
    IF h[p].st = "busy" /\ h[p].client \in Procs
    THEN {h[p].client} \cup Callers(h[p].client)
    ELSE {}

\* The request handled by p ends in an exception: socketserver closes the
\* connection without a response, and so does every handler waiting on it.
Unwound(p) == {p} \cup Callers(p)

AfterException(p) ==
    [x \in Procs |->
        IF x \in Unwound(p) THEN Idle
        ELSE IF h[x].st = "busy" /\ h[x].client \in Unwound(p)
             THEN [h[x] EXCEPT !.client = Gone]
             ELSE h[x]]

\* The process of Unwound(p) an external client is waiting for, if any.
ExternalRoot(p) ==
    {x \in Unwound(p) : h[x].st = "busy" /\ h[x].client = External}

ClosedReply(x, entry) ==
    [NoReply EXCEPT !.req = "GET /services", !.from = x, !.status = 0,
                    !.copied = h[x].copied, !.dead = h[x].dead,
                    !.refused = h[x].refused, !.failed = entry]

ReplyAfterException(p, entry) ==
    IF ExternalRoot(p) = {} THEN NoReply
    ELSE ClosedReply(CHOOSE x \in ExternalRoot(p) : TRUE, entry)

Exit(p) ==
    /\ Alive(p)
    /\ pc' = [pc EXCEPT ![p] = "Exited"]
    /\ port' = [port EXCEPT ![p] = 0]
    /\ delegates' = [delegates EXCEPT ![p] = <<>>]
    /\ services' = [services EXCEPT ![p] = <<>>]
    /\ lastOp' = [lastOp EXCEPT ![p] = [q \in HistoryPorts |-> NoOp]]
    /\ h' = AfterException(p)
    /\ reply' = ReplyAfterException(p,
                    IF Callers(p) # {} THEN <<OwnAddr, port[p]>> ELSE <<>>)
    /\ formerDelegate' = [formerDelegate EXCEPT ![p] = FALSE]
    /\ regCall' = NoCall
    /\ UNCHANGED auxVars

\* --------------------------------------------------------- _bind_server
Holder(e) == {p \in Procs : Alive(p) /\ port[p] = e}

\* Faulty variant: binding never fails (as with SO_REUSEPORT).
PortInUse_Never(e) == FALSE

\* HTTPServer((addr, port), handler) raises OSError: the address is in use.
PortInUse(e) == Holder(e) # {}

FreeEphemeral == {e \in EphemeralPorts : ~PortInUse(e)}

\* The serve_forever loop of p's server is running.
Serving(p) ==
    pc[p] \in {"Leader", "DelegateRegistering", "RegisterFailed", "Delegate",
               "ProbeSleep", "Rebinding"}

\* run(): server = self._bind_server(), then serve_forever() on port 28004
\* or _run_as_delegate(server), which starts the server thread.  The server
\* of the previous round is still referenced, and its socket still bound,
\* until the new one is assigned.
BindServer(p) ==
    /\ pc[p] = "Binding"
    /\ IF ~PortInUse(WellKnownPort)
       THEN /\ port' = [port EXCEPT ![p] = WellKnownPort]
            /\ pc' = [pc EXCEPT ![p] = "Leader"]
       ELSE IF FreeEphemeral # {}
       THEN /\ \E e \in FreeEphemeral : port' = [port EXCEPT ![p] = e]
            /\ pc' = [pc EXCEPT ![p] = "DelegateRegistering"]
       ELSE \* AssertionError: the run() thread dies, the old server with it
            /\ port' = [port EXCEPT ![p] = 0]
            /\ pc' = [pc EXCEPT ![p] = "Aborted"]
    /\ UNCHANGED <<delegates, services, h, lastOp, formerDelegate>>
    /\ reply' = NoReply
    /\ regCall' = NoCall
    /\ UNCHANGED auxVars

\* ---------------------------------------------------- _handle_http_post
JsonPayload(entry) == [kind |-> "json", addrPort |-> serialize_addr_port(entry)]
BadPayload(kind) == [kind |-> kind, addrPort |-> <<"", ":", 0>>]

\* The status sent (0: the handler raised, the connection is closed without
\* a response) and the _delegates list afterwards.
handle_http_post(list, path, payload) ==
    IF path # "/add-delegate"
    THEN [status |-> 404, delegates |-> list]
    ELSE IF payload.kind = "bad_utf8"          \* decode() raises, uncaught
    THEN [status |-> 0, delegates |-> list]
    ELSE IF payload.kind = "not_json"          \* json.loads raises ValueError
    THEN [status |-> 400, delegates |-> list]
    ELSE IF payload.kind = "no_addrPort"       \* data['addrPort'] raises
    THEN [status |-> 0, delegates |-> list]
    ELSE [status |-> 200,
          delegates |-> Append(list, parse_addr_port(payload.addrPort))]

\* The process serving port 28004 on the node address.
Leaders == {p \in Procs : Alive(p) /\ port[p] = WellKnownPort}

\* ---------------------------------------------------- _run_as_delegate
\* _add_delegate(self._addr, server.server_port): POST /add-delegate to port
\* 28004, without a timeout: it waits while the Leader's server is busy.
RegisterDelegate(p) ==
    /\ pc[p] = "DelegateRegistering"
    /\ IF Leaders = {}
       THEN \* ConnectionRefusedError, an OSError
            /\ pc' = [pc EXCEPT ![p] = "RegisterFailed"]
            /\ UNCHANGED <<delegates, formerDelegate>>
       ELSE \E l \in Leaders :
            /\ h[l].st = "idle"
            /\ Len(delegates[l]) < MaxDelegates
            /\ LET r == handle_http_post(delegates[l], "/add-delegate",
                                         JsonPayload(<<OwnAddr, port[p]>>))
               IN  /\ delegates' = [delegates EXCEPT ![l] = r.delegates]
                   /\ IF r.status = 200
                      THEN /\ pc' = [pc EXCEPT ![p] = "Delegate"]
                           /\ formerDelegate' = [formerDelegate EXCEPT ![p] = TRUE]
                      ELSE /\ pc' = [pc EXCEPT ![p] = "RegisterFailed"]
                           /\ UNCHANGED formerDelegate
    /\ UNCHANGED <<port, services, h, lastOp>>
    /\ reply' = NoReply
    /\ regCall' = NoCall
    /\ UNCHANGED auxVars

\* Faulty variant: the probe never fails.
leader_is_alive_Always(p) == TRUE

\* _leader_is_alive(): GET /ping on port 28004 with a 2 s timeout.  False when
\* the connection is refused, and when the Leader's single server thread is
\* inside a handler when the timeout expires.
leader_is_alive(p) ==
    /\ Leaders # {}
    /\ \A l \in Leaders : h[l].st = "idle"

\* while self._leader_is_alive(): time.sleep(5)
Probe(p) ==
    /\ pc[p] = "Delegate"
    /\ pc' = [pc EXCEPT ![p] = IF leader_is_alive(p) THEN "ProbeSleep"
                                                     ELSE "Rebinding"]
    /\ UNCHANGED <<port, delegates, services, h, lastOp, formerDelegate>>
    /\ reply' = NoReply
    /\ regCall' = NoCall
    /\ UNCHANGED auxVars

ProbeWake(p) ==
    /\ pc[p] = "ProbeSleep"
    /\ pc' = [pc EXCEPT ![p] = "Delegate"]
    /\ UNCHANGED <<port, delegates, services, h, lastOp, formerDelegate>>
    /\ reply' = NoReply
    /\ regCall' = NoCall
    /\ UNCHANGED auxVars

\* Faulty variant: the except branch lacks its return and falls through to
\* the probe loop.
StopServer_NoReturn(p) ==
    /\ pc[p] \in {"Rebinding", "RegisterFailed"}
    /\ h[p].st = "idle"
    /\ pc' = [pc EXCEPT ![p] = IF pc[p] = "Rebinding" THEN "Binding" ELSE "Delegate"]
    /\ UNCHANGED <<port, delegates, services, h, lastOp, formerDelegate>>
    /\ reply' = NoReply
    /\ regCall' = NoCall
    /\ UNCHANGED auxVars

\* Faulty variant: the server is left running (no shutdown, no join).
StopServer_NoJoin(p) ==
    /\ pc[p] \in {"Rebinding", "RegisterFailed"}
    /\ pc' = [pc EXCEPT ![p] = IF pc[p] = "Rebinding" THEN "Binding" ELSE "Cooldown"]
    /\ UNCHANGED <<port, delegates, services, h, lastOp, formerDelegate>>
    /\ reply' = NoReply
    /\ regCall' = NoCall
    /\ UNCHANGED auxVars

\* server.shutdown(); srv_thread.join(): waits for the handler in progress.
\* The socket stays bound: nothing calls server_close().
StopServer(p) ==
    /\ pc[p] \in {"Rebinding", "RegisterFailed"}
    /\ h[p].st = "idle"
    /\ pc' = [pc EXCEPT ![p] = IF pc[p] = "Rebinding" THEN "Binding" ELSE "Cooldown"]
    /\ UNCHANGED <<port, delegates, services, h, lastOp, formerDelegate>>
    /\ reply' = NoReply
    /\ regCall' = NoCall
    /\ UNCHANGED auxVars

\* time.sleep(10); return
CooldownElapsed(p) ==
    /\ pc[p] = "Cooldown"
    /\ pc' = [pc EXCEPT ![p] = "Binding"]
    /\ UNCHANGED <<port, delegates, services, h, lastOp, formerDelegate>>
    /\ reply' = NoReply
    /\ regCall' = NoCall
    /\ UNCHANGED auxVars

\* ----------------------------------------- _handle_http_get, /services
DeadEntries(list) ==
    {list[i] : i \in {j \in 1..Len(list) :
                 list[j][1] = OwnAddr /\ ~PortInUse(list[j][2])}}

\* Faulty variant: the response starts without the local registry.
BeginGetServices_NoLocal(p, client) ==
    [st |-> "busy", client |-> client, acc |-> <<>>,
     todo |-> delegates[p], copied |-> delegates[p],
     dead |-> DeadEntries(delegates[p]),
     log |-> <<[proc |-> p, entry |-> <<>>, snap |-> Snapshot(p)]>>,
     refused |-> {}]

\* services = list(self._registry.services); delegates = copy of _delegates
BeginGetServices(p, client) ==
    [st |-> "busy", client |-> client, acc |-> Snapshot(p),
     todo |-> delegates[p], copied |-> delegates[p],
     dead |-> DeadEntries(delegates[p]),
     log |-> <<[proc |-> p, entry |-> <<>>, snap |-> Snapshot(p)]>>,
     refused |-> {}]

\* list.remove(x): the first occurrence goes.
RemoveFirst(list, x) ==
    LET hits == {i \in 1..Len(list) : list[i] = x}
    IN  IF hits = {} THEN list
        ELSE Pop(list, CHOOSE i \in hits : \A j \in hits : i <= j)

\* p's handler is blocked in _get_remote_services on a process of the model.
Waiting(p) == \E q \in Procs : h[q].st = "busy" /\ h[q].client = p

\* p's handler is about to fetch from the next delegate of its copy.
CanFetch(p) == h[p].st = "busy" /\ h[p].todo # <<>> /\ ~Waiting(p)

\* A list_services() of some node: GET /services on port 28004.
ExtGetServices(l) ==
    /\ l \in Leaders
    /\ h[l].st = "idle"
    /\ h' = [h EXCEPT ![l] = BeginGetServices(l, External)]
    /\ reply' = NoReply
    /\ UNCHANGED <<pc, port, delegates, services, lastOp, formerDelegate>>
    /\ regCall' = NoCall
    /\ UNCHANGED auxVars

\* Nobody listens on the delegate's port: ConnectionRefusedError, and the
\* entry is removed under the mutex.  A foreign address may refuse as well.
FetchRefused(p) ==
    /\ CanFetch(p)
    /\ LET entry == h[p].todo[1]
       IN  /\ entry[1] = OwnAddr => ~PortInUse(entry[2])
           /\ delegates' = [delegates EXCEPT ![p] = RemoveFirst(delegates[p], entry)]
           /\ h' = [h EXCEPT ![p].todo = Tail(h[p].todo),
                             ![p].refused = h[p].refused \cup
                                 {Len(h[p].copied) - Len(h[p].todo) + 1}]
    /\ UNCHANGED <<pc, port, services, lastOp, formerDelegate>>
    /\ reply' = NoReply
    /\ regCall' = NoCall
    /\ UNCHANGED auxVars

\* The delegate's server takes the request: its own GET /services handler.
FetchCall(p, q) ==
    /\ CanFetch(p)
    /\ h[p].todo[1] = <<OwnAddr, port[q]>>
    /\ Alive(q) /\ Serving(q) /\ h[q].st = "idle"
    /\ h' = [h EXCEPT ![q] = BeginGetServices(q, p)]
    /\ UNCHANGED <<pc, port, delegates, services, lastOp, formerDelegate>>
    /\ reply' = NoReply
    /\ regCall' = NoCall
    /\ UNCHANGED auxVars

\* Faulty variant: the exception ends serve_forever and the run() thread,
\* and the server socket is closed.
FetchFails_EndsServer(p) ==
    /\ h[p].st = "busy" /\ h[p].todo # <<>>
    /\ LET entry == h[p].todo[1]
       IN  /\ \/ entry[1] # OwnAddr
              \/ \E q \in Holder(entry[2]) : q = p \/ ~Serving(q) \/ h[q].st = "busy"
           /\ h' = AfterException(p)
           /\ reply' = ReplyAfterException(p, entry)
    /\ pc' = [pc EXCEPT ![p] = "Aborted"]
    /\ port' = [port EXCEPT ![p] = 0]
    /\ UNCHANGED <<delegates, services, lastOp, formerDelegate>>
    /\ regCall' = NoCall
    /\ UNCHANGED auxVars

\* _get_remote_services raises something other than ConnectionRefusedError:
\* the 2 s timeout (the peer is busy, or its socket is bound but no longer
\* served, or it is p itself), or for a foreign address also a non-200
\* status or a body that does not parse.  Nothing catches it.
FetchFails(p) ==
    /\ h[p].st = "busy" /\ h[p].todo # <<>>
    /\ LET entry == h[p].todo[1]
       IN  /\ \/ entry[1] # OwnAddr
              \/ \E q \in Holder(entry[2]) : q = p \/ ~Serving(q) \/ h[q].st = "busy"
           /\ h' = AfterException(p)
           /\ reply' = ReplyAfterException(p, entry)
    /\ UNCHANGED <<pc, port, delegates, services, lastOp, formerDelegate>>
    /\ regCall' = NoCall
    /\ UNCHANGED auxVars

\* What a foreign node's Leader answers with.
ForeignServices == <<Service("f", NoLabels, ForeignAddr, 7)>>

\* services.extend(add) for a delegate on another address.
FetchForeign(p) ==
    /\ CanFetch(p)
    /\ h[p].todo[1][1] # OwnAddr
    /\ h' = [h EXCEPT ![p].todo = Tail(h[p].todo),
                      ![p].acc = h[p].acc \o ForeignServices,
                      ![p].log = Append(h[p].log,
                                   [proc |-> External, entry |-> h[p].todo[1],
                                    snap |-> ForeignServices])]
    /\ UNCHANGED <<pc, port, delegates, services, lastOp, formerDelegate>>
    /\ reply' = NoReply
    /\ regCall' = NoCall
    /\ UNCHANGED auxVars

\* send_response(200) and the JSON body; the caller extends its list.
OkReply(p) ==
    [NoReply EXCEPT !.req = "GET /services", !.from = p, !.status = 200,
                    !.body = h[p].acc, !.copied = h[p].copied,
                    !.dead = h[p].dead, !.log = h[p].log,
                    !.refused = h[p].refused]

FinishGetServices(p) ==
    /\ h[p].st = "busy" /\ h[p].todo = <<>> /\ ~Waiting(p)
    /\ LET c == h[p].client
       IN  IF c \in Procs
           THEN /\ h' = [h EXCEPT ![p] = Idle,
                                  ![c].todo = Tail(h[c].todo),
                                  ![c].acc = h[c].acc \o h[p].acc,
                                  ![c].log = h[c].log \o
                                      [i \in 1..Len(h[p].log) |->
                                          [h[p].log[i] EXCEPT !.entry = h[c].todo[1]]]]
                /\ reply' = NoReply
           ELSE /\ h' = [h EXCEPT ![p] = Idle]
                /\ reply' = IF c = External THEN OkReply(p) ELSE NoReply
    /\ UNCHANGED <<pc, port, delegates, services, lastOp, formerDelegate>>
    /\ regCall' = NoCall
    /\ UNCHANGED auxVars

\* ------------------------------------------------- POST from a peer
PostPaths == {"/add-delegate", "/other"}
PostedEntries == {<<ForeignAddr, WellKnownPort>>}
PostPayloads ==
    {JsonPayload(e) : e \in PostedEntries}
        \cup {BadPayload(k) : k \in {"not_json", "bad_utf8", "no_addrPort"}}

\* Any peer that reaches port 28004 may POST; the handler does not check
\* who asks or what address it names.
PeerPost(l, path, payload) ==
    /\ l \in Leaders
    /\ h[l].st = "idle"
    /\ LET r == handle_http_post(delegates[l], path, payload)
       IN  /\ Len(r.delegates) <= MaxDelegates
           /\ delegates' = [delegates EXCEPT ![l] = r.delegates]
           /\ reply' = [NoReply EXCEPT !.req = "POST", !.from = l,
                                       !.status = r.status, !.path = path,
                                       !.sent = payload.kind]
    /\ UNCHANGED <<pc, port, services, h, lastOp, formerDelegate>>
    /\ regCall' = NoCall
    /\ UNCHANGED auxVars

\* A peer announces a Content-Length and sends fewer bytes:
\* handler.rfile.read(length) has no timeout, and the one server thread of
\* the Leader stays in it, accepting connections but answering none.
PeerStall(l) ==
    /\ l \in Leaders
    /\ h[l].st = "idle"
    /\ h' = [h EXCEPT ![l].st = "stuck"]
    /\ UNCHANGED <<pc, port, delegates, services, lastOp, formerDelegate>>
    /\ reply' = NoReply
    /\ regCall' = NoCall
    /\ UNCHANGED auxVars

\* In the protocol specification the application advertises one service of
\* its own, once, right after start_registry() (the node thread has not bound
\* a server yet), or never; RegistrySpec below exercises the registry calls
\* in full.
AdvertiseOwn(p) ==
    /\ services[p] = <<>>
    /\ pc[p] = "Binding" /\ port[p] = 0
    /\ advertise_service(p, OwnPort(p), "x", NoLabels)

\* --------------------------------------------------------------- Next
NodeStep(p) ==
    \/ BindServer(p)
    \/ RegisterDelegate(p)
    \/ Probe(p)
    \/ ProbeWake(p)
    \/ StopServer(p)
    \/ CooldownElapsed(p)

ServerStep(p) ==
    \/ FetchRefused(p)
    \/ \E q \in Procs : FetchCall(p, q)
    \/ FetchFails(p)
    \/ FinishGetServices(p)

Next ==
    \/ \E p \in Procs : Start(p)
    \/ \E p \in Procs : Exit(p)
    \/ \E p \in Procs : NodeStep(p)
    \/ \E p \in Procs : ServerStep(p)
    \/ \E p \in Procs : FetchForeign(p)
    \/ \E p \in Procs : ExtGetServices(p)
    \/ \E p \in Procs, path \in PostPaths, payload \in PostPayloads :
           PeerPost(p, path, payload)
    \/ \E p \in Procs : AdvertiseOwn(p)

Spec == Init /\ [][Next]_vars

\* The same processes with well-behaved peers only (no POST from outside),
\* under the scheduling the threads get: the run() thread and the server
\* thread of every process keep taking steps.  A run() thread blocked in
\* _add_delegate sits in the Leader's accept queue and is served once the
\* handler in progress is done, however many requests follow: strong
\* fairness.
NextFair ==
    \/ \E p \in Procs : Start(p)
    \/ \E p \in Procs : Exit(p)
    \/ \E p \in Procs : NodeStep(p)
    \/ \E p \in Procs : ServerStep(p)
    \/ \E p \in Procs : ExtGetServices(p)

SpecFair ==
    /\ Init
    /\ [][NextFair]_vars
    /\ \A p \in Procs : SF_vars(NodeStep(p))
    /\ \A p \in Procs : WF_vars(ServerStep(p))

\* The same with a peer that may stall the Leader's server thread.
NextStall ==
    \/ NextFair
    \/ \E p \in Procs : PeerStall(p)

StallSpec ==
    /\ Init
    /\ [][NextStall]_vars
    /\ \A p \in Procs : SF_vars(NodeStep(p))
    /\ \A p \in Procs : WF_vars(ServerStep(p))

\* ---------------------------------------------------- registry alone
NextRegistry ==
    \/ Start(1)
    \/ \E prt \in RegPorts, name \in RegNames, labels \in RegLabels :
           advertise_service(1, prt, name, labels)
    \/ \E prt \in RegPorts : unlist_service(1, prt)

RegistrySpec == Init /\ [][NextRegistry]_vars

\* ------------------------------ one process, statement by statement
\* The registry and the /services and /add-delegate handlers of process 1 as
\* their threads run them, one "with self._mutex" and one loop iteration at
\* a time.  The outcome of a fetch is the peer's choice.
protoVars == <<pc, port, h, reply, regCall, lastOp, formerDelegate, net, out>>

\* Faulty variant: the registry's lock excludes nobody.
RegMutexFree_Always(t) == TRUE

\* threading.Lock: a thread enters "with self._mutex" when nobody is inside.
RegMutexFree(t) == mutex.reg = {}

DelMutexFree(t) == mutex.del = {}

BeginCall(t, op, prt, name) ==
    [thr[t] EXCEPT !.pc = "reg_lock", !.op = op, !.port = prt, !.name = name,
                   !.calls = @ + 1,
                   !.seen = IF op = "services" THEN {lin} ELSE {}]

\* The threads after t's mutation has taken effect: t is about to leave the
\* with block, and every services call in progress has seen the new value.
AfterMutation(t, after) ==
    [u \in Threads |->
        LET r == IF u = t THEN [thr[u] EXCEPT !.pc = "reg_unlock"] ELSE thr[u]
        IN  IF r.seen # {} THEN [r EXCEPT !.seen = @ \cup {after}] ELSE r]

\* An application thread calls advertise_service, unlist_service or services.
CallRegistry(t, op, prt, name) ==
    /\ t \in AppThreads
    /\ thr[t].pc = "idle" /\ thr[t].calls < MaxCalls
    /\ thr' = [thr EXCEPT ![t] = BeginCall(t, op, prt, name)]
    /\ UNCHANGED <<mutex, lin, services, delegates, protoVars>>

\* with self._mutex: (the registry's)
AcquireReg(t) ==
    /\ thr[t].pc = "reg_lock"
    /\ RegMutexFree(t)
    /\ mutex' = [mutex EXCEPT !.reg = @ \cup {t}]
    /\ thr' = [thr EXCEPT ![t].pc = "reg_held", ![t].i = 1]
    /\ UNCHANGED <<lin, services, delegates, protoVars>>

\* One iteration of advertise_service's loop, or its else branch.
AdvertiseStep(t) ==
    /\ thr[t].pc = "reg_held" /\ thr[t].op = "advertise"
    /\ LET i == thr[t].i
           list == services[1]
           new_entry == Service(thr[t].name, NoLabels, OwnAddr, thr[t].port)
           after == AdvertiseList(lin, OwnAddr, thr[t].port, thr[t].name,
                                  NoLabels)
       IN  IF i > Len(list)
           THEN /\ services' = [services EXCEPT ![1] = Append(list, new_entry)]
                /\ lin' = after
                /\ thr' = AfterMutation(t, after)
           ELSE IF list[i].addr_port[2] = thr[t].port
           THEN /\ services' = [services EXCEPT ![1][i] = new_entry]
                /\ lin' = after
                /\ thr' = AfterMutation(t, after)
           ELSE /\ thr' = [thr EXCEPT ![t].i = i + 1]
                /\ UNCHANGED <<services, lin>>
    /\ UNCHANGED <<mutex, delegates, protoVars>>

\* One iteration of unlist_service's loop; past the end, KeyError is raised
\* once the lock is released.
UnlistStep(t) ==
    /\ thr[t].pc = "reg_held" /\ thr[t].op = "unlist"
    /\ LET i == thr[t].i
           list == services[1]
       IN  IF i > Len(list)
           THEN /\ thr' = [thr EXCEPT ![t].pc = "reg_unlock"]
                /\ UNCHANGED <<services, lin>>
           ELSE IF list[i].addr_port[2] = thr[t].port
           THEN /\ services' = [services EXCEPT ![1] = Pop(list, i)]
                /\ lin' = UnlistList(lin, thr[t].port)
                /\ thr' = AfterMutation(t, UnlistList(lin, thr[t].port))
           ELSE /\ thr' = [thr EXCEPT ![t].i = i + 1]
                /\ UNCHANGED <<services, lin>>
    /\ UNCHANGED <<mutex, delegates, protoVars>>

\* return tuple(self._services)
SnapshotStep(t) ==
    /\ thr[t].pc = "reg_held" /\ thr[t].op = "services"
    /\ thr' = [thr EXCEPT ![t].pc = "reg_unlock", ![t].snap = Snapshot(1)]
    /\ UNCHANGED <<mutex, lin, services, delegates, protoVars>>

\* The end of the with block: the call returns; the handler goes on to copy
\* _delegates.
ReleaseReg(t) ==
    /\ thr[t].pc = "reg_unlock"
    /\ mutex' = [mutex EXCEPT !.reg = @ \ {t}]
    /\ thr' = [thr EXCEPT ![t] =
           IF t = ServerThread
           THEN [ThreadIdle EXCEPT !.pc = "del_lock", !.op = "copy"]
           ELSE [ThreadIdle EXCEPT !.calls = thr[t].calls]]
    /\ UNCHANGED <<lin, services, delegates, protoVars>>

\* GET /services arrives: services = list(self._registry.services)
HandleGet(t) ==
    /\ t = ServerThread
    /\ thr[t].pc = "idle"
    /\ thr' = [thr EXCEPT ![t] = [BeginCall(t, "services", 0, "")
                                     EXCEPT !.calls = 0]]
    /\ UNCHANGED <<mutex, lin, services, delegates, protoVars>>

\* POST /add-delegate arrives with a body naming entry.
HandlePost(t, entry) ==
    /\ t = ServerThread
    /\ thr[t].pc = "idle"
    /\ Len(delegates[1]) < MaxDelegates
    /\ thr' = [thr EXCEPT ![t] = [ThreadIdle EXCEPT !.pc = "del_lock",
                                     !.op = "append", !.entry = entry]]
    /\ UNCHANGED <<mutex, lin, services, delegates, protoVars>>

\* with self._mutex: (the node's)
AcquireDel(t) ==
    /\ thr[t].pc = "del_lock"
    /\ DelMutexFree(t)
    /\ mutex' = [mutex EXCEPT !.del = @ \cup {t}]
    /\ thr' = [thr EXCEPT ![t].pc = "del_held"]
    /\ UNCHANGED <<lin, services, delegates, protoVars>>

\* Faulty variant: the copy is taken and the lock kept for the loop.
CopyDelegates_KeepsLock(t) ==
    /\ thr[t].pc = "del_held" /\ thr[t].op = "copy"
    /\ thr' = [thr EXCEPT ![t].pc = "fetch", ![t].todo = delegates[1]]
    /\ UNCHANGED <<mutex, lin, services, delegates, protoVars>>

\* delegates = copy.copy(self._delegates), and the end of the with block.
CopyDelegates(t) ==
    /\ thr[t].pc = "del_held" /\ thr[t].op = "copy"
    /\ thr' = [thr EXCEPT ![t].pc = "fetch", ![t].todo = delegates[1]]
    /\ mutex' = [mutex EXCEPT !.del = @ \ {t}]
    /\ UNCHANGED <<lin, services, delegates, protoVars>>

\* for addr, port in delegates: _get_remote_services(addr, port) is called;
\* past the last entry the response is sent.
FetchBegins(t) ==
    /\ thr[t].pc = "fetch"
    /\ IF thr[t].todo = <<>>
       THEN thr' = [thr EXCEPT ![t] = ThreadIdle]
       ELSE thr' = [thr EXCEPT ![t].pc = "fetching",
                               ![t].entry = Head(thr[t].todo),
                               ![t].todo = Tail(thr[t].todo)]
    /\ UNCHANGED <<mutex, lin, services, delegates, protoVars>>

\* The fetch ends: with a list ("ok"), with ConnectionRefusedError
\* ("refused"), or with another exception, which ends the handler ("error").
FetchEnds(t, outcome) ==
    /\ thr[t].pc = "fetching"
    /\ thr' = [thr EXCEPT ![t] =
           IF outcome = "ok" THEN [thr[t] EXCEPT !.pc = "fetch"]
           ELSE IF outcome = "refused"
           THEN [thr[t] EXCEPT !.pc = "del_lock", !.op = "evict"]
           ELSE ThreadIdle]
    /\ UNCHANGED <<mutex, lin, services, delegates, protoVars>>

\* self._delegates.remove((addr, port)), and the end of the with block.
EvictDelegate(t) ==
    /\ thr[t].pc = "del_held" /\ thr[t].op = "evict"
    /\ delegates' = [delegates EXCEPT ![1] = RemoveFirst(delegates[1], thr[t].entry)]
    /\ mutex' = [mutex EXCEPT !.del = @ \ {t}]
    /\ thr' = [thr EXCEPT ![t].pc = "fetch"]
    /\ UNCHANGED <<lin, services, protoVars>>

\* self._delegates.append((addr, port)), the end of the with block, and 200.
AppendDelegate(t) ==
    /\ thr[t].pc = "del_held" /\ thr[t].op = "append"
    /\ delegates' = [delegates EXCEPT ![1] = Append(delegates[1], thr[t].entry)]
    /\ mutex' = [mutex EXCEPT !.del = @ \ {t}]
    /\ thr' = [thr EXCEPT ![t] = ThreadIdle]
    /\ UNCHANGED <<lin, services, protoVars>>

CallPorts == {10, 20}
RegisteredEntries == {<<OwnAddr, 50001>>}
FetchOutcomes == {"ok", "refused", "error"}

NextThreads ==
    \/ \E t \in Threads, prt \in CallPorts, name \in RegNames :
           CallRegistry(t, "advertise", prt, name)
    \/ \E t \in Threads, prt \in CallPorts : CallRegistry(t, "unlist", prt, "")
    \/ \E t \in Threads : CallRegistry(t, "services", 0, "")
    \/ \E t \in Threads : AcquireReg(t)
    \/ \E t \in Threads : AdvertiseStep(t)
    \/ \E t \in Threads : UnlistStep(t)
    \/ \E t \in Threads : SnapshotStep(t)
    \/ \E t \in Threads : ReleaseReg(t)
    \/ \E t \in Threads : HandleGet(t)
    \/ \E t \in Threads, entry \in RegisteredEntries : HandlePost(t, entry)
    \/ \E t \in Threads : AcquireDel(t)
    \/ \E t \in Threads : CopyDelegates(t)
    \/ \E t \in Threads : FetchBegins(t)
    \/ \E t \in Threads, outcome \in FetchOutcomes : FetchEnds(t, outcome)
    \/ \E t \in Threads : EvictDelegate(t)
    \/ \E t \in Threads : AppendDelegate(t)

ThreadSpec == Init /\ [][NextThreads]_vars

\* ------------------------------------------- list_services, find_service
\* What the clients of the tailnet can be answered.
DevLabels == [k \in {"env"} |-> "dev"]
ProdTierLabels == [k \in {"env", "tier"} |-> IF k = "env" THEN "prod" ELSE "one"]

PeerLists ==
    { <<>>,
      <<Service("x", NoLabels, OwnAddr, 10)>>,
      <<Service("x", NoLabels, OwnAddr, 10), Service("y", ProdLabels, OwnAddr, 20)>>,
      <<Service("y", DevLabels, ForeignAddr, 20),
        Service("y", ProdTierLabels, ForeignAddr, 30)>>,
      <<Service("y", ProdTierLabels, ForeignAddr, 30),
        Service("y", ProdLabels, OwnAddr, 20)>> }

\* What _get_remote_services(addr, 28004) does for one address: it returns a
\* list, or raises ConnectionRefusedError, TimeoutError, or something else
\* (a reset connection, Error for a non-200 status, a body that fails to
\* parse).
PeerAnswers ==
    {[kind |-> "ok", services |-> l] : l \in PeerLists}
        \cup {[kind |-> k, services |-> <<>>] : k \in {"refused", "timeout", "reset"}}

RECURSIVE SeqsUpTo(_, _)
SeqsUpTo(S, n) ==
    IF n = 0 THEN {<<>>}
    ELSE LET shorter == SeqsUpTo(S, n - 1)
         IN  shorter \cup {Append(q, x) : q \in shorter, x \in S}

InitClient ==
    /\ ProtoInit
    /\ thr = [t \in Threads |-> ThreadIdle]
    /\ mutex = [reg |-> {}, del |-> {}]
    /\ lin = <<>>
    /\ net \in SeqsUpTo(PeerAnswers, MaxPeers)
    /\ out = NoOut

\* Faulty variant: only a refused connection is swallowed.
ListServices_RefusedOnly(peers, acc) ==
    LET RECURSIVE Go(_, _)
        Go(rest, got) ==
            IF rest = <<>> THEN [raised |-> "", result |-> got]
            ELSE IF Head(rest).kind = "ok"
            THEN Go(Tail(rest), got \o Head(rest).services)
            ELSE IF Head(rest).kind = "refused"
            THEN Go(Tail(rest), got)
            ELSE [raised |-> Head(rest).kind, result |-> <<>>]
    IN  Go(peers, acc)

\* list_services(): the loop over the addresses, its services list being acc
\* at the start.  An exception other than the two caught ones leaves the function.
ListServices(peers, acc) ==
    LET RECURSIVE Go(_, _)
        Go(rest, got) ==
            IF rest = <<>> THEN [raised |-> "", result |-> got]
            ELSE IF Head(rest).kind = "ok"
            THEN Go(Tail(rest), got \o Head(rest).services)
            ELSE IF Head(rest).kind \in {"refused", "timeout"}
            THEN Go(Tail(rest), got)
            ELSE [raised |-> Head(rest).kind, result |-> <<>>]
    IN  Go(peers, acc)

\* Faulty variant: the label maps must be equal.
labels_match_Exact(want, have) == want = have

\* _labels_match: have.get(k) is None for a key have lacks.
labels_match(want, have) ==
    \A k \in DOMAIN want : IF k \in DOMAIN have THEN have[k] = want[k] ELSE FALSE

\* find_service's loop over list_services(); <<>> stands for None.
RECURSIVE FirstMatch(_, _, _)
FirstMatch(list, name, labels) ==
    IF list = <<>> THEN <<>>
    ELSE IF name = Head(list).name /\ labels_match(labels, Head(list).labels)
    THEN Head(list).addr_port
    ELSE FirstMatch(Tail(list), name, labels)

find_service(peers, name, labels) ==
    LET listed == ListServices(peers, <<>>)
    IN  IF listed.raised # "" THEN listed
        ELSE [raised |-> "", result |-> FirstMatch(listed.result, name, labels)]

FindNames == {"x", "y", "z"}
FindLabels == {NoLabels, ProdLabels, DevLabels}

ClientList ==
    /\ LET r == ListServices(net, <<>>)
       IN  out' = [op |-> "list", name |-> "", labels |-> NoLabels,
                   raised |-> r.raised, result |-> r.result]
    /\ UNCHANGED <<pc, port, delegates, services, h, reply, regCall, lastOp,
                   formerDelegate, thr, mutex, lin, net>>

ClientFind(name, labels) ==
    /\ LET r == find_service(net, name, labels)
       IN  out' = [op |-> "find", name |-> name, labels |-> labels,
                   raised |-> r.raised, result |-> r.result]
    /\ UNCHANGED <<pc, port, delegates, services, h, reply, regCall, lastOp,
                   formerDelegate, thr, mutex, lin, net>>

NextClient ==
    \/ ClientList
    \/ \E name \in FindNames, labels \in FindLabels : ClientFind(name, labels)

ClientSpec == InitClient /\ [][NextClient]_vars

(***************************************************************************)
(*                              The claims                                 *)
(***************************************************************************)
Range(f) == {f[i] : i \in DOMAIN f}

\* C1. Leader uniqueness: in every reachable state at most one live process
\* holds the bound server on port 28004 (is Leader), and every other live
\* process with a bound server is on another port.
C1_LeaderUniqueness ==
    /\ Cardinality({p \in Procs : pc[p] = "Leader"}) <= 1
    /\ Cardinality(Leaders) <= 1
    /\ \A p \in Procs : pc[p] = "Leader" <=> p \in Leaders
    /\ \A p \in Procs :
           (Alive(p) /\ pc[p] # "Leader" /\ port[p] # 0) => port[p] \in EphemeralPorts

\* A failover has happened: a former Delegate leads, another process is a
\* registered Delegate on its own port.
C1_Witness ==
    \E l, d \in Procs :
        /\ pc[l] = "Leader" /\ formerDelegate[l]
        /\ pc[d] = "Delegate" /\ port[d] \in EphemeralPorts

\* C2. Failover liveness: when no process holds port 28004 any more while a
\* registered Delegate p is alive, then, p staying alive, eventually exactly
\* one process is Leader.
C2_FailoverLiveness ==
    \A p \in Procs :
        [](  (pc[p] \in {"Delegate", "ProbeSleep"} /\ Leaders = {})
          => <>(Cardinality(Leaders) = 1 \/ ~Alive(p)))

\* The Leader has exited and a Delegate of its has taken port 28004.
C2_Witness ==
    \E p, q \in Procs : pc[q] = "Exited" /\ pc[p] = "Leader" /\ formerDelegate[p]

\* C3. Re-registration after failover: once a former Delegate q is Leader,
\* every other registered Delegate p eventually has its (addr, port) in q's
\* delegates list (both staying alive).
C3_ReRegistration ==
    \A p, q \in Procs :
        [](  (/\ p # q
              /\ pc[q] = "Leader" /\ formerDelegate[q]
              /\ pc[p] \in {"Delegate", "ProbeSleep"})
          => <>(\/ <<OwnAddr, port[p]>> \in Range(delegates[q])
                \/ ~Alive(p)
                \/ ~Alive(q)))

\* The concatenation of the snapshots of a log.
RECURSIVE FlattenSnaps(_)
FlattenSnaps(log) ==
    IF log = <<>> THEN <<>> ELSE Head(log).snap \o FlattenSnaps(Tail(log))

\* list without the entries at the positions of gone.
Without(list, gone) ==
    LET kept == SelectSeq([i \in 1..Len(list) |-> i], LAMBDA i : i \notin gone)
    IN  [k \in 1..Len(kept) |-> list[kept[k]]]

\* C4. Aggregation: a GET /services answered 200 by the Leader carries the
\* Leader's registry snapshot followed by one snapshot per delegate of its
\* list that answered, in list order, each the registry of the process that
\* answered, and nothing else; with one registered Delegate that is the
\* Leader's snapshot followed by the Delegate's.
C4_Aggregation ==
    (reply.req = "GET /services" /\ reply.status = 200) =>
        /\ reply.log # <<>>
        /\ reply.log[1].proc = reply.from
        /\ reply.log[1].entry = <<>>
        /\ [i \in 1..(Len(reply.log) - 1) |-> reply.log[i + 1].entry]
               = Without(reply.copied, reply.refused)
        /\ \A i \in 1..Len(reply.log) :
               LET q == reply.log[i].proc
               IN  (q \in Procs /\ Alive(q)) => reply.log[i].snap = Snapshot(q)
        /\ reply.body = FlattenSnaps(reply.log)

\* A Leader with one registered Delegate answers with both registries.
C4_Witness ==
    /\ reply.req = "GET /services" /\ reply.status = 200
    /\ Len(reply.copied) = 1 /\ reply.refused = {}
    /\ Len(reply.log) = 2 /\ reply.log[2].proc \in Procs
    /\ reply.log[1].snap # <<>> /\ reply.log[2].snap # <<>>
    /\ Len(reply.body) = 2

\* C5. Lazy eviction: a GET /services on a Leader whose list holds an entry
\* nobody listens on (its delegate process has exited) is answered 200, and
\* afterwards the list no longer holds that entry.
C5_LazyEviction ==
    \A entry \in reply.dead :
        (/\ reply.req = "GET /services"
         /\ Alive(reply.from)
         /\ ~PortInUse(entry[2])
         /\ reply.failed # entry
         /\ \A i \in 1..Len(reply.log) : reply.log[i].entry # entry)
        => (/\ reply.status = 200
            /\ entry \notin Range(delegates[reply.from]))

\* C6. Non-refusal delegate errors are non-fatal: when the fetch from a
\* registered, live Delegate fails otherwise than by a refused connection, the
\* request is still answered 200 and the Delegate stays in the list.
C6_NonRefusalNonFatal ==
    (/\ reply.req = "GET /services"
     /\ Alive(reply.from)
     /\ \E d \in Procs : /\ pc[d] \in {"Delegate", "ProbeSleep"}
                         /\ reply.failed = <<OwnAddr, port[d]>>)
    => (/\ reply.status = 200
        /\ reply.failed \in Range(delegates[reply.from]))

\* C7. Delegates invariant: every entry of a delegates list has the Node's
\* own address and a port other than 28004.
C7_DelegatesInvariant ==
    \A p \in Procs : \A i \in 1..Len(delegates[p]) :
        /\ delegates[p][i][1] = OwnAddr
        /\ delegates[p][i][2] # WellKnownPort

\* C8. A POST /add-delegate whose body is not valid JSON is answered 400, a
\* POST to another path 404, and neither changes a delegates list.
C8_MalformedPost ==
    [][ (/\ reply'.req = "POST"
         /\ \/ reply'.path # "/add-delegate"
            \/ reply'.sent \in {"not_json", "bad_utf8"})
        => (/\ reply'.status = IF reply'.path # "/add-delegate" THEN 404 ELSE 400
            /\ delegates' = delegates) ]_vars

\* C9. Registry content: a snapshot holds an entry with port prt exactly when
\* the last successful operation on prt was an advertise; then it holds one
\* such entry, with the name and labels of that advertise.
C9_RegistryContent ==
    \A p \in Procs :
        /\ \A i \in 1..Len(Snapshot(p)) : Snapshot(p)[i].addr_port[2] \in HistoryPorts
        /\ \A prt \in HistoryPorts :
            LET snap == Snapshot(p)
                hits == {i \in 1..Len(snap) : snap[i].addr_port[2] = prt}
            IN  /\ (hits # {}) <=> (lastOp[p][prt].kind = "advertise")
                /\ Cardinality(hits) <= 1
                /\ \A i \in hits : /\ snap[i].name = lastOp[p][prt].name
                                   /\ snap[i].labels = lastOp[p][prt].labels
                                   /\ snap[i].addr_port = <<OwnAddr, prt>>

\* A port advertised twice (replaced in place) next to a port that was
\* advertised and unlisted.
C9_Witness ==
    /\ Len(services[1]) = 1
    /\ services[1][1] = Service("y", ProdLabels, OwnAddr, 10)
    /\ lastOp[1][20].kind = "unlist"
    /\ regCall.op = "advertise" /\ regCall.port = 10

\* C10. unlist(prt) on a registry without an entry for prt fails with
\* KeyError and leaves the registry's list as it was.
C10_UnlistAbsent ==
    [][ \A p \in Procs, prt \in HistoryPorts :
          (/\ regCall'.op = "unlist" /\ regCall'.proc = p /\ regCall'.port = prt
           /\ FirstIndex(services[p], prt) = 0)
          => (/\ regCall'.result = "KeyError"
              /\ services'[p] = services[p]) ]_vars

\* unlist of an absent port on a registry that holds other services.
C10_Witness ==
    /\ regCall.op = "unlist" /\ regCall.result = "KeyError"
    /\ Len(services[1]) = 2
    /\ FirstIndex(services[1], regCall.port) = 0

\* C11. Registry order: advertise on a listed port replaces that entry at its
\* index and leaves every other entry where it is; advertise on a new port
\* appends at the end; unlist removes one entry, the others keeping their
\* relative order.
C11_RegistryOrder ==
    [][ \A p \in Procs, prt \in HistoryPorts :
          (regCall'.proc = p /\ regCall'.port = prt /\ regCall'.result = "ok") =>
            LET old == services[p]
                new == services'[p]
                i == FirstIndex(old, prt)
                entry == Service(lastOp'[p][prt].name, lastOp'[p][prt].labels,
                                 OwnAddr, prt)
            IN  /\ (regCall'.op = "advertise" /\ i > 0) =>
                      /\ Len(new) = Len(old)
                      /\ new[i] = entry
                      /\ \A j \in 1..Len(old) : j # i => new[j] = old[j]
                /\ (regCall'.op = "advertise" /\ i = 0) =>
                      /\ Len(new) = Len(old) + 1
                      /\ new[Len(new)] = entry
                      /\ \A j \in 1..Len(old) : new[j] = old[j]
                /\ regCall'.op = "unlist" =>
                      /\ i > 0
                      /\ Len(new) = Len(old) - 1
                      /\ \A j \in 1..Len(new) :
                             new[j] = IF j < i THEN old[j] ELSE old[j + 1] ]_vars

\* The first of two entries has just been replaced in place.
C11_Witness ==
    /\ regCall.op = "advertise" /\ regCall.port = 10 /\ regCall.result = "ok"
    /\ Len(services[1]) = 2
    /\ services[1][1] = Service("y", ProdLabels, OwnAddr, 10)
    /\ services[1][2] = Service("x", NoLabels, OwnAddr, 20)
    /\ lastOp[1][20].kind = "advertise"

\* C12. Linearisable registry: with concurrent callers the registry's list is
\* at every moment what the mutations made so far give when applied one
\* after the other in the order they took effect (each between its call and
\* its return), and the tuple a services call returns is a value the
\* registry had at some moment of that call.
C12_Linearisable ==
    /\ services[1] = lin
    /\ \A t \in Threads :
           (thr[t].pc = "reg_unlock" /\ thr[t].op = "services")
               => thr[t].snap \in thr[t].seen

\* A services call that overlapped a mutation is about to return a non-empty
\* tuple while another caller waits for the lock.
C12_Witness ==
    \E t, u \in Threads :
        /\ t # u
        /\ thr[t].pc = "reg_unlock" /\ thr[t].op = "services"
        /\ Cardinality(thr[t].seen) >= 2 /\ thr[t].snap # <<>>
        /\ thr[u].pc = "reg_lock" /\ thr[u].op = "unlist"

\* C19. Lock discipline: no thread is inside the registry's and the node's
\* with block at once, and nobody is inside the node's while a fetch from a
\* delegate is in progress.
C19_LockDiscipline ==
    /\ \A t \in Threads : ~(t \in mutex.reg /\ t \in mutex.del)
    /\ (\E t \in Threads : thr[t].pc = "fetching") => mutex.del = {}

\* The handler has taken the node's lock again to evict a refused entry, with
\* one more entry to fetch, while an application thread is inside the
\* registry's with block.
C19_Witness ==
    /\ thr[ServerThread].pc = "del_held" /\ thr[ServerThread].op = "evict"
    /\ thr[ServerThread].todo # <<>>
    /\ mutex.del = {ServerThread}
    /\ \E t \in AppThreads : mutex.reg = {t}

\* The lists of the addresses that answered, one after the other.
RECURSIVE Answered(_)
Answered(peers) ==
    IF peers = <<>> THEN <<>>
    ELSE (IF Head(peers).kind = "ok" THEN Head(peers).services ELSE <<>>)
             \o Answered(Tail(peers))

\* C13. list(): when every address either answers, refuses the connection or
\* times out, list() does not fail and returns the lists of the addresses
\* that answered, concatenated in the order of the addresses.
C13_ListServices ==
    (/\ out.op = "list"
     /\ \A i \in 1..Len(net) : net[i].kind \in {"ok", "refused", "timeout"})
    => (out.raised = "" /\ out.result = Answered(net))

\* A refusing and a timing-out address around one that answers.
C13_Witness ==
    /\ out.op = "list" /\ out.raised = ""
    /\ Len(net) = 3
    /\ net[1].kind = "refused" /\ net[2].kind = "ok" /\ net[3].kind = "timeout"
    /\ Len(out.result) = 2

\* The positions of list whose service has the name and at least the labels.
Matches(list, name, labels) ==
    {i \in 1..Len(list) :
        /\ list[i].name = name
        /\ {<<k, labels[k]>> : k \in DOMAIN labels}
              \subseteq {<<k, list[i].labels[k]>> : k \in DOMAIN list[i].labels}}

\* C14. find(n, l) returns a result exactly when a service of list() has the
\* name n and labels that include l, and then the addr_port of the first
\* such service in list() order; otherwise None.
C14_FindService ==
    (out.op = "find" /\ out.raised = "") =>
        LET hits == Matches(Answered(net), out.name, out.labels)
        IN  /\ (out.result # <<>>) <=> (hits # {})
            /\ hits # {} =>
                  out.result =
                      Answered(net)[CHOOSE i \in hits : \A j \in hits : i <= j].addr_port

\* The first service of the name has other labels, the second has the
\* requested label and one more, a third matches as well.
C14_Witness ==
    /\ out.op = "find" /\ out.name = "y" /\ out.labels = ProdLabels
    /\ out.result = <<ForeignAddr, 30>>
    /\ Cardinality(Matches(Answered(net), "y", ProdLabels)) >= 2
    /\ \E i \in 1..Len(Answered(net)) :
           /\ Answered(net)[i].name = "y"
           /\ i \notin Matches(Answered(net), "y", ProdLabels)
           /\ \A j \in Matches(Answered(net), "y", ProdLabels) : i < j

\* C15. Every outbound call is bounded by a timeout; in particular a process
\* in Delegate-Registering eventually is a Delegate or on its way to the
\* Cooldown (or has exited), whatever the Leader does with its request.  (A
\* Leader whose list is at the length the model caps it at is not held
\* against the process.)
C15_RegistrationEnds ==
    \A p \in Procs :
        [](pc[p] = "DelegateRegistering"
            => <>(\/ pc[p] \in {"Delegate", "RegisterFailed", "Cooldown"}
                  \/ ~Alive(p)
                  \/ \E l \in Leaders : Len(delegates[l]) >= MaxDelegates))

\* C16. Registration failure path: a process enters the probe loop only from
\* Delegate-Registering and only with its (addr, port) put into the Leader's
\* list; a failed registration leads to RegisterFailed, from there with the
\* server stopped to the Cooldown, from there to Binding, and a process
\* whose registration failed does get back to Binding (or exits).
C16_RegistrationFailure ==
    /\ [][ \A p \in Procs :
             /\ (pc'[p] \in {"Delegate", "ProbeSleep"}
                    /\ pc[p] \notin {"Delegate", "ProbeSleep"})
                  => /\ pc[p] = "DelegateRegistering"
                     /\ \E l \in Leaders :
                           /\ Len(delegates'[l]) = Len(delegates[l]) + 1
                           /\ delegates'[l][Len(delegates'[l])] = <<OwnAddr, port[p]>>
             /\ (pc[p] = "DelegateRegistering" /\ pc'[p] # pc[p])
                  => pc'[p] \in {"Delegate", "RegisterFailed", "Exited"}
             /\ (pc[p] = "RegisterFailed" /\ pc'[p] # pc[p])
                  => /\ pc'[p] \in {"Cooldown", "Exited"}
                     /\ pc'[p] = "Cooldown" => h[p].st = "idle"
             /\ (pc[p] = "Cooldown" /\ pc'[p] # pc[p])
                  => pc'[p] \in {"Binding", "Exited"}
             /\ pc'[p] = "Cooldown" => h'[p].st = "idle" ]_vars
    /\ \A p \in Procs :
           (pc[p] = "RegisterFailed") ~> (pc[p] = "Binding" \/ ~Alive(p))

\* A process whose registration failed has stopped its server and sleeps.
C16_Witness ==
    \E p \in Procs : pc[p] = "Cooldown" /\ port[p] \in EphemeralPorts

\* C17. Probe failure path: a Delegate whose probe fails goes to Rebinding
\* and from there, with its server stopped, to Binding; in Binding no
\* handler of the old server runs, and port 28004 is tried before an
\* ephemeral port.
C17_ProbeFailure ==
    /\ [](\A p \in Procs : pc[p] = "Binding" => (h[p].st = "idle" /\ ~Serving(p)))
    /\ [][ \A p \in Procs :
             /\ (pc[p] = "Delegate" /\ ~leader_is_alive(p) /\ pc'[p] # pc[p])
                  => pc'[p] \in {"Rebinding", "Exited"}
             /\ (pc'[p] = "Rebinding" /\ pc[p] # "Rebinding")
                  => (pc[p] = "Delegate" /\ ~leader_is_alive(p))
             /\ (pc[p] = "Rebinding" /\ pc'[p] # pc[p])
                  => (pc'[p] \in {"Binding", "Exited"})
             /\ (pc[p] = "Binding" /\ pc'[p] # pc[p] /\ ~PortInUse(WellKnownPort))
                  => pc'[p] \in {"Leader", "Exited"}
             /\ (pc[p] = "Binding" /\ pc'[p] = "DelegateRegistering")
                  => (PortInUse(WellKnownPort) /\ port'[p] \in EphemeralPorts) ]_vars

\* A Delegate that was answering a fetch when its probe failed has stopped
\* its server and is in Binding, the Leader still alive.
C17_Witness ==
    \E p \in Procs :
        /\ pc[p] = "Binding" /\ port[p] \in EphemeralPorts
        /\ formerDelegate[p]
        /\ Leaders # {}

\* C18. Leader is absorbing: a process in the Leader role stays in it, on
\* port 28004, until it exits, also when a request handler of its fails.
C18_LeaderAbsorbing ==
    [][ \A p \in Procs :
          pc[p] = "Leader" =>
              /\ pc'[p] \in {"Leader", "Exited"}
              /\ pc'[p] = "Leader" => port'[p] = WellKnownPort ]_vars

\* A GET /services handler of the Leader has just failed; it still leads.
C18_Witness ==
    /\ reply.req = "GET /services" /\ reply.status = 0
    /\ reply.from \in Procs
    /\ pc[reply.from] = "Leader" /\ port[reply.from] = WellKnownPort

\* C20. No spurious failover: a registered Delegate leaves the Delegate role
\* for Rebinding only when no live process holds port 28004.
C20_NoSpuriousFailover ==
    [][ \A p \in Procs :
          (pc[p] = "Delegate" /\ pc'[p] = "Rebinding") => Leaders = {} ]_vars

=============================================================================
